---- MODULE Spec2Model ----
(***************************************************************************)
(* zdir_patch (src/src/zdir_patch.c): one directory patch, "create this    *)
(* file" or "delete this file".  The model keeps the C heap explicit:      *)
(* every string, every zfile_t and every zdir_patch_t is a block with an   *)
(* address and a count of the times it was freed, so that ownership,       *)
(* aliasing and double frees are visible.  Addresses are never reused.     *)
(* The caller starts with the file it made with zfile_new, as the self     *)
(* test does, and then makes, copies, digests and destroys patches.        *)
(* A C string is a sequence of one-character strings.                      *)
(***************************************************************************)
EXTENDS Integers, Sequences, FiniteSets

VARIABLES
    strs,       \* heap of C strings: address -> [val, frees]
    files,      \* heap of zfile_t objects: address -> [fullname, frees, by]
    patches,    \* heap of zdir_patch_t structs: address -> the five fields + frees
    made,       \* history: how each patch struct came to be (dup source, caller's file)
    hp,         \* the caller's zdir_patch_t * variables (0 is NULL)
    fp,         \* the caller's zfile_t * variable (0 is NULL): the file it made,
                \* or the file of a patch as zdir_patch_file returned it
    disk,       \* content of the file on disk; 0 is unreadable / removed
    status,     \* "running", "aborted" by a failed assertion, "crashed" by a fault
    last,       \* the call made last and what it was given
    ncalls      \* calls the caller has made so far, the reading accessors apart

vars == <<strs, files, patches, made, hp, fp, disk, status, last, ncalls>>

NULL == 0

\* ---------------------------------------------------------------- bounds
MaxPatches == 2         \* patch structs allocated in one run
MaxCalls == 4           \* calls, other than reading accessors, made in one run
MaxContent == 2         \* distinct readable contents the file can have

\* the caller holds one patch pointer variable per patch it can make
Handles == 1..MaxPatches
Contents == 0..MaxContent

\* ---------------------------------------------------------------- inputs
Ops == {"patch_create", "patch_delete"}
RealPaths == {<<".">>}
Aliases == {<< >>, <<"/">>, <<"/", "d">>}
\* zfile_new (path, name); has_path = FALSE is a NULL path
FileArgs == {[has_path |-> FALSE, path |-> << >>, name |-> <<"/", "a">>],
             [has_path |-> TRUE, path |-> <<".">>, name |-> <<"a">>]}
\* what the byte in front of an empty alias can hold
StrayBytes == {"/", "x"}
\* the read of a byte that is not mapped
Fault == "SIGSEGV"
\* what reading the byte in front of an empty alias can give
StrayReads == StrayBytes \cup {Fault}

Min(a, b) == IF a < b THEN a ELSE b

\* ---------------------------------------------------------------- libc
strdup(ss, v) ==
    [strs |-> Append(ss, [val |-> v, frees |-> 0]), ret |-> Len(ss) + 1]

free(ss, a) ==
    IF a = NULL THEN ss ELSE [ss EXCEPT ![a].frees = Min(@ + 1, 2)]

\* ---------------------------------------------------------------- zfile
\* The file class lives outside this source file; modelled from the
\* contract the patch class relies on.
zfile_fullname(has_path, path, name) ==
    IF has_path THEN path \o <<"/">> \o name ELSE name

zfile_new(fs, has_path, path, name) ==
    [files |-> Append(fs, [fullname |-> zfile_fullname(has_path, path, name),
                           frees |-> 0, by |-> "caller"]),
     ret |-> Len(fs) + 1]

zfile_dup(fs, f) ==
    [files |-> Append(fs, [fullname |-> fs[f].fullname, frees |-> 0, by |-> "patch"]),
     ret |-> Len(fs) + 1]

zfile_destroy(fs, f) ==
    IF f = NULL THEN fs ELSE [fs EXCEPT ![f].frees = Min(@ + 1, 2)]

RECURSIVE skip_slashes(_)
skip_slashes(s) ==
    IF s # << >> /\ Head(s) = "/" THEN skip_slashes(Tail(s)) ELSE s

\* name of the file relative to path: the prefix is removed when it is one
zfile_filename(fullname, path) ==
    IF Len(fullname) >= Len(path) /\ SubSeq(fullname, 1, Len(path)) = path
    THEN skip_slashes(SubSeq(fullname, Len(path) + 1, Len(fullname)))
    ELSE fullname

Digit == <<"1", "2", "3", "4">>
\* the digest string of a content
Hash(c) == <<"#", Digit[c]>>

\* digest of the file's present content as a fresh string, NULL if unreadable
\* (the process runs in /, so that /a and ./a name the one file on disk)
zfile_digest(ss, f, dk) ==
    IF dk = 0
    THEN [strs |-> ss, ret |-> NULL]
    ELSE strdup(ss, Hash(dk))

\* ---------------------------------------------------------------- zdir_patch
\* struct _zdir_patch_t
Patch(path, vpath, file, op, digest) ==
    [path |-> path, vpath |-> vpath, file |-> file, op |-> op,
     digest |-> digest, frees |-> 0]

\* a constructor that keeps the caller's file instead of a copy of it
new_file_borrowed(fs, file) == [files |-> fs, ret |-> file]

\* self->file = zfile_dup (file)
new_file(fs, file) == zfile_dup(fs, file)

\* a constructor without the assertion
filename_any(filename) == TRUE

\* assert (*filename != '/')
filename_ok(filename) == filename = << >> \/ Head(filename) # "/"

\* alias [strlen (alias) - 1]: with an empty alias this reads the byte in
\* front of the string, which holds anything or is not readable at all
alias_last(alias, stray) ==
    IF alias # << >> THEN alias[Len(alias)] ELSE stray

\* the two sprintf calls
make_vpath(alias, filename, stray) ==
    IF alias_last(alias, stray) = "/"
    THEN alias \o filename
    ELSE alias \o <<"/">> \o filename

\* a copy that shares the file of the original
dup_file_shared(fs, file) == [files |-> fs, ret |-> file]

\* copy->file = zfile_dup (self->file)
dup_file(fs, file) == zfile_dup(fs, file)

\* a copy that computes the digest of a create patch anew
dup_digest_recalc(ss, p) ==
    IF p.op = "patch_create" THEN zfile_digest(ss, files[p.file], disk)
    ELSE [strs |-> ss, ret |-> NULL]

\* copy->digest = self->digest? strdup (self->digest): NULL
dup_digest(ss, p) ==
    IF p.digest # NULL THEN strdup(ss, ss[p.digest].val)
    ELSE [strs |-> ss, ret |-> NULL]

\* a condition that forgets the cached digest
digest_needed_create_only(p) == p.op = "patch_create"

\* a condition that forgets the operation
digest_needed_no_digest(p) == p.digest = NULL

\* the condition of zdir_patch_digest_set
digest_needed(p) == p.op = "patch_create" /\ p.digest = NULL

\* a zdir_patch_digest_set that tries a second time when zfile_digest fails
digest_set_retry(ss, fs, dk, p) ==
    IF p.op = "patch_create" /\ p.digest = NULL
    THEN LET r == zfile_digest(ss, fs[p.file], dk)
         IN IF r.ret # NULL
            THEN [strs |-> r.strs, digest |-> r.ret, calls |-> 1]
            ELSE [strs |-> r.strs, digest |-> zfile_digest(ss, fs[p.file], dk).ret,
                  calls |-> 2]
    ELSE [strs |-> ss, digest |-> p.digest, calls |-> 0]

\* zdir_patch_digest_set on the struct p: heap of strings afterwards, the
\* digest field afterwards, and the number of zfile_digest calls made
digest_set(ss, fs, dk, p) ==
    IF digest_needed(p)
    THEN LET r == zfile_digest(ss, fs[p.file], dk)
         IN [strs |-> r.strs, digest |-> r.ret, calls |-> 1]
    ELSE [strs |-> ss, digest |-> p.digest, calls |-> 0]

\* a destructor that leaves the caller's variable as it is
cleared_not(p) == p

\* *self_p = NULL
cleared(p) == NULL

\* accessors
zdir_patch_path(a) == strs[patches[a].path].val
zdir_patch_vpath(a) == strs[patches[a].vpath].val
zdir_patch_file(a) == patches[a].file
zdir_patch_op(a) == patches[a].op
zdir_patch_digest(a) == patches[a].digest

\* does the digest cached in the struct p differ from the one the file has now
Stale(p) ==
    /\ p.digest # NULL
    /\ (disk = 0 \/ strs[p.digest].val # Hash(disk))

\* a record of a call: the function, the caller's variable it was given, the
\* patch it was given or has returned, for zdir_patch_new the alias and the
\* derived filename, the number of zfile_digest calls it made, and whether
\* the patch it was given held a digest that the file no longer has
Call(op, h, p) ==
    [op |-> op, h |-> h, p |-> p, alias |-> << >>, filename |-> << >>,
     calls |-> 0, stale |-> FALSE]

\* history of a patch struct: the patch it is a copy of, the caller's file,
\* alias and derived filename it was constructed from, and the caller's
\* variable it was destroyed through
NoOrigin ==
    [dup_of |-> NULL, from |-> NULL, via |-> NULL, alias |-> << >>, filename |-> << >>]

\* ---------------------------------------------------------------- state
\* the process is alive and the caller makes one more call
Running ==
    /\ status = "running"
    /\ ncalls < MaxCalls
    /\ ncalls' = ncalls + 1

\* the process ends, and its memory with it
Die(how) ==
    /\ status' = how
    /\ strs' = << >>
    /\ files' = << >>
    /\ patches' = << >>
    /\ made' = << >>
    /\ hp' = [h \in Handles |-> NULL]
    /\ fp' = NULL

\* a failed assert
Abort == Die("aborted")

\* a read outside the mapped memory
Crash == Die("crashed")

Init ==
    /\ strs = << >>
    /\ \E args \in FileArgs :
          files = zfile_new(<< >>, args.has_path, args.path, args.name).files
    /\ patches = << >>
    /\ made = << >>
    /\ hp = [h \in Handles |-> NULL]
    /\ fp = 1
    /\ disk \in Contents
    /\ status = "running"
    /\ last = Call("init", 0, NULL)
    /\ ncalls = 0

\* the caller: zfile_destroy (&file)
ZfileDestroy ==
    /\ Running
    /\ fp # NULL
    /\ files[fp].by = "caller"
    /\ files' = zfile_destroy(files, fp)
    /\ fp' = NULL
    /\ last' = Call("zfile_destroy", 0, NULL)
    /\ UNCHANGED <<strs, patches, made, hp, disk, status>>

\* the file changes on disk, or becomes unreadable
DiskWrite(c) ==
    /\ status = "running"
    /\ disk # c
    /\ disk' = c
    /\ UNCHANGED <<strs, files, patches, made, hp, fp, status, last, ncalls>>

\* the caller's first patch pointer variable that holds NULL
FreeHandle(h) == hp[h] = NULL /\ \A g \in Handles : g < h => hp[g] # NULL

\* hp[h] = zdir_patch_new (path, fp, op, alias)
zdir_patch_new(h, path, op, alias, stray) ==
    /\ Running
    /\ FreeHandle(h)
    /\ fp # NULL
    /\ files[fp].frees = 0
    /\ Len(patches) < MaxPatches
    /\ LET s1 == strdup(strs, path)
           f1 == new_file(files, fp)
           filename == zfile_filename(files[fp].fullname, path)
           s2 == strdup(s1.strs, make_vpath(alias, filename, stray))
           a == Len(patches) + 1
       IN IF ~filename_ok(filename)
          THEN \* nothing is returned
               /\ Abort
               /\ last' = [Call("new", h, NULL) EXCEPT !.alias = alias,
                                                        !.filename = filename]
          ELSE IF alias_last(alias, stray) = Fault
          THEN \* nothing is returned
               /\ Crash
               /\ last' = [Call("new", h, NULL) EXCEPT !.alias = alias,
                                                        !.filename = filename]
          ELSE /\ strs' = s2.strs
               /\ files' = f1.files
               /\ patches' = Append(patches, Patch(s1.ret, s2.ret, f1.ret, op, NULL))
               /\ made' = Append(made, [NoOrigin EXCEPT !.from = fp, !.alias = alias,
                                                         !.filename = filename])
               /\ hp' = [hp EXCEPT ![h] = a]
               /\ last' = [Call("new", h, a) EXCEPT !.alias = alias,
                                                     !.filename = filename]
               /\ UNCHANGED <<status, fp>>
    /\ UNCHANGED disk

\* hp[h2] = zdir_patch_dup (hp[h])
zdir_patch_dup(h, h2) ==
    /\ Running
    /\ hp[h] # NULL
    /\ FreeHandle(h2)
    /\ Len(patches) < MaxPatches
    /\ LET self == patches[hp[h]]
           s1 == strdup(strs, strs[self.path].val)
           f1 == dup_file(files, self.file)
           s2 == strdup(s1.strs, strs[self.vpath].val)
           s3 == dup_digest(s2.strs, self)
           a == Len(patches) + 1
       IN /\ strs' = s3.strs
          /\ files' = f1.files
          /\ patches' = Append(patches, Patch(s1.ret, s2.ret, f1.ret, self.op, s3.ret))
          /\ made' = Append(made, [NoOrigin EXCEPT !.dup_of = hp[h]])
          /\ hp' = [hp EXCEPT ![h2] = a]
          /\ last' = [Call("dup", h, a) EXCEPT !.stale = Stale(self)]
    /\ UNCHANGED <<fp, disk, status>>

\* zdir_patch_digest_set (hp[h])
zdir_patch_digest_set(h) ==
    /\ Running
    /\ hp[h] # NULL
    /\ LET r == digest_set(strs, files, disk, patches[hp[h]])
       IN /\ strs' = r.strs
          /\ patches' = [patches EXCEPT ![hp[h]].digest = r.digest]
          /\ last' = [Call("digest_set", h, hp[h]) EXCEPT !.calls = r.calls,
                                                           !.stale = Stale(patches[hp[h]])]
    /\ UNCHANGED <<files, made, hp, fp, disk, status>>

\* zdir_patch_destroy (&hp[h]), also with hp[h] NULL
zdir_patch_destroy(h) ==
    /\ Running
    /\ IF hp[h] # NULL
       THEN LET self == patches[hp[h]]
            IN /\ strs' = free(free(free(strs, self.path), self.vpath), self.digest)
               /\ files' = zfile_destroy(files, self.file)
               /\ patches' = [patches EXCEPT ![hp[h]].frees = Min(@ + 1, 2)]
               /\ made' = [made EXCEPT ![hp[h]].via = h]
               /\ hp' = [hp EXCEPT ![h] = cleared(hp[h])]
       ELSE UNCHANGED <<strs, files, patches, made, hp>>
    /\ last' = Call("destroy", h, hp[h])
    /\ UNCHANGED <<fp, disk, status>>

\* the caller: file = zdir_patch_file (hp[h]), with no file of its own in
\* the variable; the patch goes on owning the file
GetFile(h) ==
    /\ Running
    /\ IF fp = NULL THEN TRUE ELSE files[fp].by = "patch"
    /\ IF hp[h] # NULL
       THEN /\ fp' = zdir_patch_file(hp[h])
            /\ UNCHANGED <<strs, files, patches, made, hp, status>>
       ELSE Abort
    /\ last' = Call("get_file", h, hp[h])
    /\ UNCHANGED disk

\* zdir_patch_path, _op, _vpath, _digest on hp[h], the result looked at and
\* not kept: assert (self), and nothing changes
Accessors(h) ==
    /\ status = "running"
    /\ IF hp[h] # NULL
       THEN UNCHANGED <<strs, files, patches, made, hp, fp, status, last>>
       ELSE Abort /\ last' = Call("get", h, NULL)
    /\ UNCHANGED <<disk, ncalls>>

Next ==
    \/ ZfileDestroy
    \/ \E c \in Contents : DiskWrite(c)
    \/ \E h \in Handles, path \in RealPaths, op \in Ops, alias \in Aliases,
          stray \in StrayReads : zdir_patch_new(h, path, op, alias, stray)
    \/ \E h \in Handles, h2 \in Handles : zdir_patch_dup(h, h2)
    \/ \E h \in Handles : zdir_patch_digest_set(h)
    \/ \E h \in Handles : zdir_patch_destroy(h)
    \/ \E h \in Handles : GetFile(h)
    \/ \E h \in Handles : Accessors(h)

Spec == Init /\ [][Next]_vars

\* ---------------------------------------------------------------- properties
Live(a) == patches[a].frees = 0

EndsWithSlash(s) == s # << >> /\ s[Len(s)] = "/"

BeginsWithSlash(s) == s # << >> /\ Head(s) = "/"

\* the step is a call of the function op
CallStep(op) == ncalls' = ncalls + 1 /\ last'.op = op

\* what the accessors of the struct p show in the heaps ss and fs, with the
\* state of every block the struct owns
View(ss, fs, p) ==
    [path |-> ss[p.path], vpath |-> ss[p.vpath], file |-> fs[p.file], op |-> p.op,
     has_digest |-> p.digest # NULL,
     digest |-> IF p.digest # NULL THEN ss[p.digest] ELSE [val |-> << >>, frees |-> 0],
     frees |-> p.frees]

\* Path, VirtualPath, Operation and Digest of the struct p in the heap ss
Values(ss, p) ==
    [path |-> ss[p.path].val, vpath |-> ss[p.vpath].val, op |-> p.op,
     has_digest |-> p.digest # NULL,
     digest |-> IF p.digest # NULL THEN ss[p.digest].val ELSE << >>]

NoDoubleFree ==
    /\ \A s \in DOMAIN strs : strs[s].frees <= 1
    /\ \A f \in DOMAIN files : files[f].frees <= 1
    /\ \A a \in DOMAIN patches : patches[a].frees <= 1

\* the part of a virtual path that follows the alias and the one joining
\* separator
VpathRest(vpath, alias) ==
    LET r == SubSeq(vpath, Len(alias) + 1, Len(vpath))
    IN IF ~EndsWithSlash(alias) /\ BeginsWithSlash(r) THEN Tail(r) ELSE r

\* C1: every patch made by zdir_patch_new from an alias and a file whose name
\* relative to the path is f has the virtual path alias + f when the alias
\* ends with '/', and alias + "/" + f when it does not, whatever the operation.
C1_VirtualPath ==
    \A a \in DOMAIN patches :
        (made[a].dup_of = NULL /\ Live(a)) =>
            zdir_patch_vpath(a) =
                IF EndsWithSlash(made[a].alias)
                THEN made[a].alias \o made[a].filename
                ELSE made[a].alias \o <<"/">> \o made[a].filename

\* C10: zdir_patch_new with the empty alias fails fast and returns no patch.
C10_EmptyAliasFailsFast ==
    (last.op = "new" /\ last.alias = << >>) => (status = "aborted" /\ last.p = NULL)

\* C9: zdir_patch_new aborts, returning nothing, whenever the name of the file
\* relative to the path begins with '/'; and in every patch it has made, what
\* follows the alias and the joining separator in the virtual path does not
\* begin with '/'.
C9_LeadingSeparatorIsFatal ==
    /\ (last.op = "new" /\ BeginsWithSlash(last.filename)) =>
           (status = "aborted" /\ last.p = NULL /\ patches = << >>)
    /\ \A a \in DOMAIN patches :
           (made[a].dup_of = NULL /\ Live(a)) =>
               ~BeginsWithSlash(VpathRest(zdir_patch_vpath(a), made[a].alias))

C9_Witness ==
    status = "aborted" /\ last.op = "new" /\ BeginsWithSlash(last.filename)

\* C2: the digest of a create patch is absent right after zdir_patch_new; the
\* first zdir_patch_digest_set that finds the file readable stores the digest
\* of the content the file has then; and from then on, for as long as the
\* patch lives, the digest field and the string it points to stay what they
\* are, whatever is called and whatever happens to the file.
C2_DigestLifecycle ==
    [][/\ (CallStep("new") /\ last'.p # NULL) => patches'[last'.p].digest = NULL
       /\ \A a \in DOMAIN patches :
            (patches[a].op = "patch_create" /\ Live(a) /\ a \in DOMAIN patches'
                /\ patches'[a].frees = 0) =>
                /\ patches[a].digest # NULL =>
                       /\ patches'[a].digest = patches[a].digest
                       /\ strs'[patches[a].digest] = strs[patches[a].digest]
                       /\ strs[patches[a].digest].frees = 0
                /\ (patches[a].digest = NULL /\ patches'[a].digest # NULL) =>
                       /\ CallStep("digest_set") /\ last'.p = a
                       /\ disk # 0
                       /\ strs'[patches'[a].digest] = [val |-> Hash(disk), frees |-> 0]
                /\ (CallStep("digest_set") /\ last'.p = a /\ patches[a].digest = NULL
                        /\ disk # 0) =>
                       patches'[a].digest # NULL
      ]_vars

\* a second zdir_patch_digest_set on a create patch whose cached digest is
\* no longer the digest of the file
C2_Witness ==
    /\ last.op = "digest_set" /\ last.stale /\ last.calls = 0
    /\ last.p \in DOMAIN patches
    /\ patches[last.p].op = "patch_create"
    /\ Live(last.p)

\* C3: a patch that holds a digest is a create patch; the digest of a delete
\* patch, and of every copy of one, is absent whatever has been called.
C3_DigestOnlyForCreate ==
    \A a \in DOMAIN patches :
        /\ patches[a].digest # NULL => patches[a].op = "patch_create"
        /\ patches[a].op = "patch_delete" => zdir_patch_digest(a) = NULL

\* zdir_patch_digest_set was called on a copy of a delete patch while the
\* file was readable
C3_Witness ==
    /\ last.op = "digest_set"
    /\ last.p \in DOMAIN patches
    /\ patches[last.p].op = "patch_delete"
    /\ made[last.p].dup_of # NULL
    /\ disk # 0

\* C4: zdir_patch_dup returns a patch with the path, virtual path, operation
\* and digest (value, or absence) that the original has at the call; it
\* allocates the copies of these strings and nothing else, calls zfile_digest
\* for neither patch, and leaves the original as it is.
C4_DupCopiesVerbatim ==
    [][CallStep("dup") =>
          LET src == hp[last'.h]
              c == last'.p
          IN /\ Values(strs', patches'[c]) = Values(strs, patches[src])
             /\ patches'[src] = patches[src]
             /\ \A s \in DOMAIN strs : strs'[s] = strs[s]
             /\ Len(strs') = Len(strs) + 2 + (IF patches[src].digest # NULL THEN 1 ELSE 0)
             /\ last'.calls = 0
      ]_vars

\* a patch was copied while its cached digest was no longer the digest of
\* the file
C4_Witness ==
    /\ last.op = "dup" /\ last.stale
    /\ patches[last.p].digest # NULL

\* C5: a call of zdir_patch_digest_set or zdir_patch_destroy on one patch
\* leaves every other live patch, its copies and its original among them,
\* with the same fields, the same owned blocks, all of them live, and in the
\* same variable of the caller.
C5_NoSharedState ==
    [][\A a \in DOMAIN patches, b \in DOMAIN patches :
          (/\ a # b
           /\ Live(b)
           /\ CallStep("digest_set") \/ CallStep("destroy")
           /\ last'.p = a) =>
              /\ patches'[b] = patches[b]
              /\ View(strs', files', patches'[b]) = View(strs, files, patches[b])
              /\ \A h \in Handles : hp[h] = b => hp'[h] = b
      ]_vars

\* the original was given a digest after the copy was made, and then
\* destroyed; the copy lives on without a digest
C5_Witness ==
    /\ last.op = "destroy"
    /\ \E c \in DOMAIN patches :
          /\ made[c].dup_of = last.p
          /\ last.p # NULL
          /\ patches[last.p].frees = 1
          /\ patches[last.p].digest # NULL
          /\ Live(c)
          /\ patches[c].digest = NULL

\* C6: when the caller destroys the file it gave to zdir_patch_new, every
\* live patch keeps its file, live and with the same name relative to the
\* path, and its path and virtual path; when a patch is destroyed, the
\* file the caller made itself, if its variable holds it, stays as it is.
C6_OwnFileDuplicate ==
    [][/\ CallStep("zfile_destroy") =>
             \A a \in DOMAIN patches :
                 Live(a) =>
                     /\ patches'[a] = patches[a]
                     /\ View(strs', files', patches'[a]) = View(strs, files, patches[a])
                     /\ files'[patches'[a].file].frees = 0
                     /\ made[a].dup_of = NULL =>
                            zfile_filename(files'[patches'[a].file].fullname,
                                           strs'[patches'[a].path].val)
                                = made[a].filename
       /\ (CallStep("destroy") /\ fp # NULL /\ files[fp].by = "caller") =>
             (fp' = fp /\ files'[fp] = files[fp] /\ files[fp].frees = 0)
      ]_vars

\* the caller has destroyed the file a live patch was constructed from
C6_Witness ==
    /\ last.op = "zfile_destroy"
    /\ \E a \in DOMAIN patches :
          /\ Live(a)
          /\ made[a].from # NULL
          /\ files[made[a].from].frees = 1
          /\ files[patches[a].file].frees = 0

\* C7: zdir_patch_destroy on a variable that holds a patch frees the struct,
\* its two paths, its file and its digest, if it has one, each once, frees
\* nothing else, and sets the variable to NULL; on a variable that holds NULL
\* it changes nothing; and no block is ever freed twice.
C7_DestroyTwice ==
    [][/\ CallStep("destroy") =>
             LET h == last'.h
                 a == hp[h]
             IN IF a # NULL
                THEN /\ hp'[h] = NULL
                     /\ \A g \in Handles \ {h} : hp'[g] = hp[g]
                     /\ patches'[a].frees = 1
                     /\ \A b \in DOMAIN patches \ {a} : patches'[b] = patches[b]
                     /\ \A s \in DOMAIN strs :
                           strs'[s].frees = strs[s].frees +
                               (IF s \in {patches[a].path, patches[a].vpath,
                                          patches[a].digest}
                                THEN 1 ELSE 0)
                     /\ \A f \in DOMAIN files :
                           files'[f].frees = files[f].frees +
                               (IF f = patches[a].file THEN 1 ELSE 0)
                ELSE /\ strs' = strs /\ files' = files /\ patches' = patches
                     /\ hp' = hp /\ fp' = fp /\ status' = status
       /\ NoDoubleFree'
      ]_vars

\* zdir_patch_destroy was called on a variable that holds NULL since the
\* patch in it, which had a digest, was destroyed
C7_Witness ==
    /\ last.op = "destroy" /\ last.p = NULL
    /\ status = "running"
    /\ \E a \in DOMAIN patches :
          /\ made[a].via = last.h
          /\ patches[a].frees = 1
          /\ patches[a].digest # NULL

\* C8: a zdir_patch_digest_set on a create patch without a digest calls
\* zfile_digest once and the process goes on; when the file is unreadable the
\* patch keeps all its fields, the digest absent, and the heap is as before;
\* when it is readable the digest is present afterwards, which is how the
\* caller tells the two apart.
C8_DigestFailure ==
    [][CallStep("digest_set") =>
          LET a == last'.p
          IN (patches[a].op = "patch_create" /\ patches[a].digest = NULL) =>
                /\ last'.calls = 1
                /\ status' = "running"
                /\ IF disk = 0
                   THEN /\ patches' = patches /\ strs' = strs /\ files' = files
                        /\ hp' = hp /\ fp' = fp
                        /\ patches'[a].digest = NULL
                   ELSE patches'[a].digest # NULL
      ]_vars

\* zdir_patch_digest_set has called zfile_digest, which failed
C8_Witness ==
    /\ last.op = "digest_set" /\ last.calls = 1
    /\ last.p \in DOMAIN patches
    /\ patches[last.p].op = "patch_create"
    /\ patches[last.p].digest = NULL

====
